---- MODULE Spec2Model ----
\* A model of sioku (src/sioku.c, src/Sioku.c): the device session lifecycle
\* (open device / open interface / connect / close / reset / reconnect) and the
\* control transfer engine, against a nondeterministic host USB subsystem.
EXTENDS Integers, Sequences, FiniteSets, TLC

VARIABLES client, devs, ifaces, srcs, pc, log, ret, conn, xfer, pending,
          scratch, nAsync

vars == <<client, devs, ifaces, srcs, pc, log, ret, conn, xfer, pending,
          scratch, nAsync>>

\* ---------------------------------------------------------------- bounds
\* Handles of each kind the host hands out in one behaviour.
MaxHandles == 2
\* Scans one connect call may start.
MaxScans == 3
\* Candidate services one matching request yields.
MaxCand == 2
\* Interfaces a device exposes.
MaxIfaces == 2
\* Largest interface index a caller asks for.
MaxIndex == 1
\* Asynchronous transfers submitted in one behaviour.
MaxAsync == 2

\* ------------------------------------------------------------- constants
WAIT_RETRY_TIMEOUT == 200
SIOKU_DEFAULT_USB_TIMEOUT == 6
NullBufferSize == 4096

NULL == 0

\* A uint32_t as two 16-bit limbs, low limb first (little-endian).
Limb == 2 ^ 16
U32(n) == <<n % Limb, (n \div Limb) % Limb>>
UINT32_MAX == <<Limb - 1, Limb - 1>>
\* A pointer-sized value as four 16-bit limbs, low limb first.
U64(n) == <<n % Limb, (n \div Limb) % Limb, 0, 0>>

\* IOReturn codes the host may report.
Codes == {"kIOReturnSuccess", "kIOReturnAborted", "kIOReturnTimeout",
          "kIOUSBTransactionTimeout", "kIOUSBPipeStalled",
          "kIOReturnNotPermitted"}

\* ------------------------------------------------- transfer result taxonomy
sioku_transfer_state_from_iokit_NoAbort(error) ==
  CASE error = "kIOReturnSuccess" -> "Ok"
    [] error = "kIOReturnTimeout" -> "Ok"
    [] error = "kIOUSBTransactionTimeout" -> "Ok"
    [] error = "kIOUSBPipeStalled" -> "Stall"
    [] OTHER -> "Error"

sioku_transfer_state_from_iokit(error) ==
  CASE error = "kIOReturnSuccess" -> "Ok"
    [] error = "kIOReturnAborted" -> "Ok"
    [] error = "kIOReturnTimeout" -> "Ok"
    [] error = "kIOUSBTransactionTimeout" -> "Ok"
    [] error = "kIOUSBPipeStalled" -> "Stall"
    [] OTHER -> "Error"

TRANSFER_RESULT_ERROR_ZeroLength == [state |-> "Error", length |-> U32(0)]

TRANSFER_RESULT_ERROR == [state |-> "Error", length |-> UINT32_MAX]

sioku_transfer_result_NoLength(error, length) ==
  [state |-> sioku_transfer_state_from_iokit(error), length |-> U32(0)]

sioku_transfer_result(error, length) ==
  [state |-> sioku_transfer_state_from_iokit(error), length |-> length]

\* ------------------------------------------------------------ the resolver
\* IOQueryInterface: res is the host's behaviour, "plugin_fail" (the plugin
\* object cannot be created), "query_fail" (QueryInterface fails) or "ok".
ResolverOutcomes == {"plugin_fail", "query_fail", "ok"}

IOQueryInterface_KeepService(service, res) ==
  IF res = "plugin_fail"
  THEN [ok |-> FALSE,
        log |-> << <<"IOCreatePlugInInterfaceForService", service>> >>]
  ELSE [ok |-> res = "ok",
        log |-> << <<"IOCreatePlugInInterfaceForService", service>>,
                   <<"QueryInterface", service>>,
                   <<"IODestroyPlugInInterface", service>>,
                   <<"IOObjectRelease", service>> >>]

IOQueryInterface(service, res) ==
  IF res = "plugin_fail"
  THEN [ok |-> FALSE,
        log |-> << <<"IOCreatePlugInInterfaceForService", service>>,
                   <<"IOObjectRelease", service>> >>]
  ELSE [ok |-> res = "ok",
        log |-> << <<"IOCreatePlugInInterfaceForService", service>>,
                   <<"QueryInterface", service>>,
                   <<"IODestroyPlugInInterface", service>>,
                   <<"IOObjectRelease", service>> >>]

\* The value of the out slot after IOQueryInterface: the new handle on
\* success, and what it held before otherwise.
SlotAfterQuery(old, new, res) == IF res = "ok" THEN new ELSE old

\* ------------------------------------------------------------ session state
\* st is the session and the host objects it has touched:
\*   client  the SiokuClient fields (handles are indices, NULL = 0)
\*   devs    device handles:    [open, rel (Release calls)]
\*   ifaces  interface handles: [open, rel]
\*   srcs    event sources:     [reg (registered with the run loop), rel]
\*   log     host calls made by the operation in progress (in sioku_connect:
\*           on the candidate in progress)
St == [client |-> client, devs |-> devs, ifaces |-> ifaces, srcs |-> srcs,
       log |-> log]

sioku_client_create ==
  [device |-> NULL, interface |-> NULL, event_source |-> NULL]

DeviceLive(st) ==
  st.client.device # NULL /\ st.devs[st.client.device].rel = 0
InterfaceLive(st) ==
  st.client.interface # NULL /\ st.ifaces[st.client.interface].rel = 0
SourceLive(st) ==
  st.client.event_source # NULL /\ st.srcs[st.client.event_source].rel = 0

\* ------------------------------------------------------------- open device
\* step is the first device call the host fails, or "ok".
DeviceSteps == {"seize_fail", "desc_fail", "config_fail", "source_fail", "ok"}

DeviceCalls(d) ==
  << <<"USBDeviceOpenSeize", d>>, <<"GetConfigurationDescriptorPtr", d>>,
     <<"SetConfiguration", d>>, <<"CreateDeviceAsyncEventSource", d>> >>

DeviceStepNo(step) ==
  CASE step = "seize_fail" -> 1
    [] step = "desc_fail" -> 2
    [] step = "config_fail" -> 3
    [] OTHER -> 4

\* The calls after the labels fail: and cleanup: of sioku_open_device.
open_device_unwind_AlwaysClose(step, d) ==
  << <<"USBDeviceClose", d>>, <<"Release", d>> >>

open_device_unwind(step, d) ==
  IF step = "seize_fail"
  THEN << <<"Release", d>> >>
  ELSE << <<"USBDeviceClose", d>>, <<"Release", d>> >>

sioku_open_device(st, service, res, step) ==
  LET q == IOQueryInterface(service, res)
      d == Len(st.devs) + 1
      e == Len(st.srcs) + 1
      c0 == [st.client EXCEPT
               !.device = SlotAfterQuery(@, d, res)]
      tried == SubSeq(DeviceCalls(d), 1, DeviceStepNo(step))
  IN
  IF ~q.ok
  THEN [ok |-> FALSE,
        st |-> [st EXCEPT !.client = c0, !.log = @ \o q.log]]
  ELSE IF step = "seize_fail"
  THEN \* goto cleanup: Release only
       [ok |-> FALSE,
        st |-> [st EXCEPT
                 !.client = c0,
                 !.devs = Append(@, [open |-> FALSE, rel |-> 1]),
                 !.log = @ \o q.log \o tried \o open_device_unwind(step, d)]]
  ELSE IF step # "ok"
  THEN \* goto fail: USBDeviceClose, then Release
       [ok |-> FALSE,
        st |-> [st EXCEPT
                 !.client = c0,
                 !.devs = Append(@, [open |-> FALSE, rel |-> 1]),
                 !.log = @ \o q.log \o tried \o open_device_unwind(step, d)]]
  ELSE [ok |-> TRUE,
        st |-> [st EXCEPT
                 !.client = [c0 EXCEPT !.event_source = e],
                 !.devs = Append(@, [open |-> TRUE, rel |-> 0]),
                 !.srcs = Append(@, [reg |-> TRUE, rel |-> 0]),
                 !.log = @ \o q.log \o tried
                           \o << <<"CFRunLoopAddSource", e>> >>]]

\* ---------------------------------------------------------- open interface
\* The walk of the interface iterator (the for loop): i is the loop counter,
\* pos the number of candidates the iterator has yielded so far, n the number
\* it holds. Candidate k is the k-th one yielded; service 0 is IO_OBJECT_NULL.
IfService(k) == 100 + k

RECURSIVE InterfaceWalk_First(_, _, _, _, _, _)
InterfaceWalk_First(i, index, pos, n, service, lg) ==
  IF i > index
  THEN [service |-> service, log |-> lg]
  ELSE LET nxt == IF pos < n THEN pos + 1 ELSE 0
           pos1 == IF pos < n THEN pos + 1 ELSE pos
           lg1 == Append(lg, <<"IOIteratorNext", IfService(nxt)>>)
       IN IF nxt = 0
          THEN InterfaceWalk_First(i + 1, index, pos1, n, 0, lg1)
          ELSE [service |-> nxt, log |-> lg1]

RECURSIVE InterfaceWalk(_, _, _, _, _, _)
InterfaceWalk(i, index, pos, n, service, lg) ==
  IF i > index
  THEN [service |-> service, log |-> lg]
  ELSE LET nxt == IF pos < n THEN pos + 1 ELSE 0
           pos1 == IF pos < n THEN pos + 1 ELSE pos
           lg1 == Append(lg, <<"IOIteratorNext", IfService(nxt)>>)
       IN IF nxt = 0
          THEN InterfaceWalk(i + 1, index, pos1, n, 0, lg1)
          ELSE IF i = index
          THEN [service |-> nxt, log |-> lg1]
          ELSE InterfaceWalk(i + 1, index, pos1, n, nxt,
                             Append(lg1, <<"IOObjectRelease", IfService(nxt)>>))

\* how is the host's behaviour: "iter_fail" (no iterator), or an iterator of
\* n candidates followed by the resolver outcome res and istep, the first
\* interface call the host fails ("seize_fail", "alt_fail") or "ok".
InterfaceSteps == {"seize_fail", "alt_fail", "ok"}

\* Whether the requested alternate setting is applied to the interface.
AlternateApplied_Always(alt_index) == TRUE

AlternateApplied(alt_index) == alt_index = 1

\* The calls of sioku_open_interface after SetAlternateInterface has failed
\* on the new handle f.
open_interface_unwind_CloseDevice(st, f) ==
  [st EXCEPT
    !.ifaces = Append(@, [open |-> FALSE, rel |-> 1]),
    !.devs[st.client.device] = [open |-> FALSE, rel |-> @.rel + 1],
    !.log = @ \o << <<"USBInterfaceClose", f>>, <<"Release", f>>,
                    <<"USBDeviceClose", st.client.device>>,
                    <<"Release", st.client.device>> >>]

open_interface_unwind(st, f) ==
  [st EXCEPT
    !.ifaces = Append(@, [open |-> FALSE, rel |-> 1]),
    !.log = @ \o << <<"USBInterfaceClose", f>>, <<"Release", f>> >>]

sioku_open_interface(st, index, alt_index, iter_ok, n, res, istep) ==
  LET w == InterfaceWalk(0, index, 0, n, 0, << >>)
      f == Len(st.ifaces) + 1
      c0 == [st.client EXCEPT
               !.interface = SlotAfterQuery(@, f, res)]
      q == IOQueryInterface(IfService(w.service), res)
      walked == << <<"CreateInterfaceIterator", st.client.device>> >>
                  \o w.log \o << <<"IOObjectRelease_iterator", 0>> >>
  IN
  IF ~iter_ok
  THEN [ok |-> FALSE,
        st |-> [st EXCEPT
                 !.log = @ \o << <<"CreateInterfaceIterator",
                                   st.client.device>> >>]]
  ELSE IF w.service = 0
  THEN [ok |-> FALSE, st |-> [st EXCEPT !.log = @ \o walked]]
  ELSE IF ~q.ok
  THEN [ok |-> FALSE,
        st |-> [st EXCEPT !.client = c0, !.log = @ \o walked \o q.log]]
  ELSE IF istep = "seize_fail"
  THEN \* return false: the handle is neither closed nor released
       [ok |-> FALSE,
        st |-> [st EXCEPT
                 !.client = c0,
                 !.ifaces = Append(@, [open |-> FALSE, rel |-> 0]),
                 !.log = @ \o walked \o q.log
                           \o << <<"USBInterfaceOpenSeize", f>> >>]]
  ELSE IF ~AlternateApplied(alt_index)
  THEN [ok |-> TRUE,
        st |-> [st EXCEPT
                 !.client = c0,
                 !.ifaces = Append(@, [open |-> TRUE, rel |-> 0]),
                 !.log = @ \o walked \o q.log
                           \o << <<"USBInterfaceOpenSeize", f>> >>]]
  ELSE IF istep = "ok"
  THEN [ok |-> TRUE,
        st |-> [st EXCEPT
                 !.client = c0,
                 !.ifaces = Append(@, [open |-> TRUE, rel |-> 0]),
                 !.log = @ \o walked \o q.log
                           \o << <<"USBInterfaceOpenSeize", f>>,
                                 <<"SetAlternateInterface", f>> >>]]
  ELSE [ok |-> FALSE,
        st |-> open_interface_unwind(
                 [st EXCEPT
                   !.client = c0,
                   !.log = @ \o walked \o q.log
                             \o << <<"USBInterfaceOpenSeize", f>>,
                                   <<"SetAlternateInterface", f>> >>], f)]

\* ------------------------------------------------------------------- close
sioku_close_device_KeepSource(st) ==
  LET d == st.client.device
      e == st.client.event_source
  IN [st EXCEPT
       !.srcs[e] = [reg |-> FALSE, rel |-> @.rel],
       !.devs[d] = [open |-> FALSE, rel |-> @.rel + 1],
       !.log = @ \o << <<"CFRunLoopRemoveSource", e>>,
                       <<"USBDeviceClose", d>>, <<"Release", d>> >>]

sioku_close_device(st) ==
  LET d == st.client.device
      e == st.client.event_source
  IN [st EXCEPT
       !.srcs[e] = [reg |-> FALSE, rel |-> @.rel + 1],
       !.devs[d] = [open |-> FALSE, rel |-> @.rel + 1],
       !.log = @ \o << <<"CFRunLoopRemoveSource", e>>, <<"CFRelease", e>>,
                       <<"USBDeviceClose", d>>, <<"Release", d>> >>]

sioku_close_interface(st) ==
  LET f == st.client.interface
  IN [st EXCEPT
       !.ifaces[f] = [open |-> FALSE, rel |-> @.rel + 1],
       !.log = @ \o << <<"USBInterfaceClose", f>>, <<"Release", f>> >>]

sioku_disconnect_DeviceFirst(st) ==
  sioku_close_interface(sioku_close_device(st))

sioku_disconnect(st) == sioku_close_device(sioku_close_interface(st))

\* how is the host's behaviour: "reset_fail" (ResetDevice fails),
\* "reenum_fail" (USBDeviceReEnumerate fails) or "ok". The third element of
\* the USBDeviceReEnumerate call is its options argument.
sioku_reset_IgnoreReEnumerate(st, how) ==
  [ok |-> how # "reset_fail",
   st |-> [st EXCEPT
            !.log = @ \o (IF how = "reset_fail"
                          THEN << <<"ResetDevice", st.client.device>> >>
                          ELSE << <<"ResetDevice", st.client.device>>,
                                  <<"USBDeviceReEnumerate", st.client.device,
                                    0>> >>)]]

sioku_reset(st, how) ==
  [ok |-> how = "ok",
   st |-> [st EXCEPT
            !.log = @ \o (IF how = "reset_fail"
                          THEN << <<"ResetDevice", st.client.device>> >>
                          ELSE << <<"ResetDevice", st.client.device>>,
                                  <<"USBDeviceReEnumerate", st.client.device,
                                    0>> >>)]]

ResetOutcomes == {"reset_fail", "reenum_fail", "ok"}

\* ------------------------------------------------- operation-local records
NoOut == [state |-> "none", length |-> U32(0)]
\* host is what the host did to the returned call: the resolver's outcome and
\* the first call it failed (or "ok").
NoHost == [res |-> "none", step |-> "none"]
NoRet == [op |-> "none", ok |-> FALSE, out |-> NoOut, path |-> "none",
          code |-> "none", done |-> U32(0), host |-> NoHost]

\* The locals of sioku_connect and what the call has done so far.
ConnInit == [op |-> "none", index |-> 0, alt_index |-> 0, success |-> FALSE,
             scans |-> 0, failed |-> 0, delays |-> 0, waited |-> 0,
             left |-> 0, cand |-> 0, itRel |-> 0]

\* The locals of a transfer call and what the call has done so far: data and
\* length are the caller's arguments, entry and sent the contents of
\* g_null_buffer when the call was entered and when the request was submitted.
NoRto == [pData |-> "NULL", wLength |-> 0, wLenDone |-> 0, cleared |-> FALSE,
          completionTimeout |-> 0, noDataTimeout |-> 0]
XferInit == [kind |-> "none", id |-> 0, data |-> "NULL", length |-> 0,
             entry |-> "zero", sent |-> "zero", rto |-> NoRto, timeout |-> 0,
             result |-> [init |-> FALSE, val |-> NoOut],
             delays |-> 0, waited |-> 0, aborts |-> 0, runs |-> 0,
             stops |-> 0, deliveries |-> 0, own |-> FALSE,
             submitted |-> "none", aborted |-> "none"]

Init ==
  /\ client = sioku_client_create
  /\ devs = << >>
  /\ ifaces = << >>
  /\ srcs = << >>
  /\ pc = "idle"
  /\ log = << >>
  /\ ret = NoRet
  /\ conn = ConnInit
  /\ xfer = XferInit
  /\ pending = {}
  /\ scratch = "zero"
  /\ nAsync = 0

Set(st) ==
  /\ client' = st.client
  /\ devs' = st.devs
  /\ ifaces' = st.ifaces
  /\ srcs' = st.srcs
  /\ log' = st.log

\* The session at the start of a public operation: a fresh call log.
St0 == [St EXCEPT !.log = << >>]

BoolRet(op, ok) == [NoRet EXCEPT !.op = op, !.ok = ok]

\* The host's behaviours towards Open Device, without duplicates, within the
\* bound on the handles it hands out.
DeviceHost ==
  {h \in [res : ResolverOutcomes, step : DeviceSteps] :
     /\ (h.res # "ok" => h.step = "ok")
     /\ (h.res = "ok" => Len(devs) < MaxHandles /\ Len(srcs) < MaxHandles)}

InterfaceHost ==
  {h \in [iter_ok : BOOLEAN, n : 0..MaxIfaces, res : ResolverOutcomes,
          istep : InterfaceSteps] :
     /\ (~h.iter_ok => h.n = 0 /\ h.res = "ok" /\ h.istep = "ok")
     /\ (h.res # "ok" => h.istep = "ok")
     /\ (h.iter_ok /\ h.res = "ok" => Len(ifaces) < MaxHandles)}

\* ------------------------------------------------ public session operations
OpenDevice ==
  /\ pc = "idle"
  /\ \E h \in DeviceHost :
       LET r == sioku_open_device(St0, 1, h.res, h.step)
       IN /\ Set(r.st)
          /\ ret' = [BoolRet("open_device", r.ok) EXCEPT
                       !.host = [res |-> h.res, step |-> h.step]]
  /\ conn' = ConnInit /\ xfer' = XferInit
  /\ UNCHANGED <<pc, pending, scratch, nAsync>>

OpenInterface ==
  /\ pc = "idle"
  /\ DeviceLive(St)
  /\ \E index \in 0..MaxIndex, alt_index \in {0, 1, 2}, h \in InterfaceHost :
       LET r == sioku_open_interface(St0, index, alt_index, h.iter_ok, h.n,
                                     h.res, h.istep)
       IN \* an iterator is told apart only up to the candidate at index,
          \* and the resolver and the handle only if that candidate exists
          /\ h.n <= index + 1
          /\ (h.n <= index => h.res = "ok" /\ h.istep = "ok")
          /\ Set(r.st)
          /\ ret' = [BoolRet("open_interface", r.ok) EXCEPT
                       !.host = [res |-> h.res, step |-> h.istep]]
          /\ conn' = [ConnInit EXCEPT !.index = index, !.alt_index = alt_index]
  /\ xfer' = XferInit
  /\ UNCHANGED <<pc, pending, scratch, nAsync>>

CloseDevice ==
  /\ pc = "idle"
  /\ DeviceLive(St) /\ SourceLive(St)
  /\ Set(sioku_close_device(St0))
  /\ ret' = BoolRet("close_device", TRUE)
  /\ conn' = ConnInit /\ xfer' = XferInit
  /\ UNCHANGED <<pc, pending, scratch, nAsync>>

CloseInterface ==
  /\ pc = "idle"
  /\ InterfaceLive(St)
  /\ Set(sioku_close_interface(St0))
  /\ ret' = BoolRet("close_interface", TRUE)
  /\ conn' = ConnInit /\ xfer' = XferInit
  /\ UNCHANGED <<pc, pending, scratch, nAsync>>

Disconnect ==
  /\ pc = "idle"
  /\ InterfaceLive(St) /\ DeviceLive(St) /\ SourceLive(St)
  /\ Set(sioku_disconnect(St0))
  /\ ret' = BoolRet("disconnect", TRUE)
  /\ conn' = ConnInit /\ xfer' = XferInit
  /\ UNCHANGED <<pc, pending, scratch, nAsync>>

Reset ==
  /\ pc = "idle"
  /\ DeviceLive(St)
  /\ \E how \in ResetOutcomes :
       LET r == sioku_reset(St0, how)
       IN /\ Set(r.st)
          /\ ret' = [BoolRet("reset", r.ok) EXCEPT !.host.step = how]
  /\ conn' = ConnInit /\ xfer' = XferInit
  /\ UNCHANGED <<pc, pending, scratch, nAsync>>

\* ------------------------------------------------------------------ connect
\* Where sioku_connect goes after the matching step of one loop iteration:
\* how is "null" (IOServiceMatching returned NULL), "req_fail"
\* (IOServiceGetMatchingServices failed) or "ok".
MatchOutcomes == {"null", "req_fail", "ok"}

connect_after_match_NoDelay(how) ==
  CASE how = "null" -> "c_ret"
    [] how = "req_fail" -> "c_match"
    [] OTHER -> "c_next"

connect_after_match(how) ==
  CASE how = "null" -> "c_ret"
    [] how = "req_fail" -> "c_delay"
    [] OTHER -> "c_next"

\* Where it goes after the iterator is released at the end of a scan.
connect_after_scan(success) == IF success THEN "c_ret" ELSE "c_delay"

Connect ==
  /\ pc = "idle"
  /\ \E index \in 0..MaxIndex, alt_index \in {0, 1, 2} :
       conn' = [ConnInit EXCEPT !.op = "connect", !.index = index,
                                !.alt_index = alt_index]
  /\ pc' = "c_match"
  /\ log' = << >>
  /\ ret' = NoRet
  /\ xfer' = XferInit
  /\ UNCHANGED <<client, devs, ifaces, srcs, pending, scratch, nAsync>>

\* The arguments sioku_connect_default passes to sioku_connect.
sioku_connect_default == [index |-> 0, alt_index |-> 0]

\* Where sioku_reconnect goes after sioku_reset: into sioku_connect, or back
\* to the caller.
reconnect_after_reset_Always(ok) == "c_match"

reconnect_after_reset(ok) == IF ok THEN "c_match" ELSE "idle"

\* sioku_reconnect: sioku_reset(client) && sioku_connect_default(client).
Reconnect ==
  /\ pc = "idle"
  /\ DeviceLive(St)
  /\ \E how \in ResetOutcomes :
       LET r == sioku_reset(St0, how)
           nxt == reconnect_after_reset(r.ok)
       IN /\ Set(r.st)
          /\ pc' = nxt
          /\ IF nxt = "c_match"
             THEN /\ ret' = [NoRet EXCEPT !.host.step = how]
                  /\ conn' = [ConnInit EXCEPT
                                !.op = "reconnect",
                                !.index = sioku_connect_default.index,
                                !.alt_index = sioku_connect_default.alt_index]
             ELSE /\ ret' = [BoolRet("reconnect", FALSE) EXCEPT
                               !.host.step = how]
                  /\ conn' = ConnInit
  /\ xfer' = XferInit
  /\ UNCHANGED <<pending, scratch, nAsync>>

\* One pass through the head of the for (;;) loop: build the matching
\* dictionary and request the matching services.
ConnectMatch ==
  /\ pc = "c_match"
  /\ conn.scans < MaxScans
  /\ \E how \in MatchOutcomes, n \in 0..MaxCand :
       /\ (how # "ok" => n = 0)
       /\ LET nxt == connect_after_match(how)
          IN /\ conn' = [conn EXCEPT
                           !.scans = IF how = "null" THEN @ ELSE @ + 1,
                           !.failed = IF how = "req_fail" THEN @ + 1 ELSE @,
                           !.left = n, !.cand = 0, !.itRel = 0]
             /\ IF nxt = "c_ret"
                THEN pc' = "idle" /\ ret' = BoolRet(conn.op, conn.success)
                ELSE pc' = nxt /\ ret' = ret
  /\ UNCHANGED <<client, devs, ifaces, srcs, log, xfer, pending, scratch, nAsync>>

\* IOIteratorNext yields a candidate: sioku_open_device on it, and on failure
\* IOObjectRelease(service) and on to the next candidate.
ConnectOpenDevice ==
  /\ pc = "c_next"
  /\ conn.left > 0
  /\ \E h \in DeviceHost :
       LET k == conn.cand + 1
           r == sioku_open_device(St0, k, h.res, h.step)
       IN /\ conn' = [conn EXCEPT !.left = @ - 1, !.cand = k]
          /\ IF r.ok
             THEN Set(r.st) /\ pc' = "c_iface"
             ELSE /\ Set([r.st EXCEPT
                            !.log = Append(@, <<"IOObjectRelease", k>>)])
                  /\ pc' = "c_next"
  /\ UNCHANGED <<ret, xfer, pending, scratch, nAsync>>

\* sioku_open_interface on the opened candidate; on failure the device is
\* closed again, on success the loop is left.
ConnectOpenInterface ==
  /\ pc = "c_iface"
  /\ \E h \in InterfaceHost :
       LET r == sioku_open_interface(St, conn.index, conn.alt_index, h.iter_ok,
                                     h.n, h.res, h.istep)
       IN IF r.ok
          THEN /\ Set(r.st)
               /\ conn' = [conn EXCEPT !.success = TRUE]
               /\ pc' = "c_end"
          ELSE /\ Set(sioku_close_device(r.st))
               /\ conn' = conn
               /\ pc' = "c_next"
  /\ UNCHANGED <<ret, xfer, pending, scratch, nAsync>>

\* The while loop is left (IOIteratorNext yielded IO_OBJECT_NULL, or break):
\* the iterator is released; on success the call returns, else it retries.
ConnectScanEnd ==
  /\ \/ pc = "c_next" /\ conn.left = 0
     \/ pc = "c_end"
  /\ conn' = [conn EXCEPT !.itRel = @ + 1,
                          !.failed = IF conn.success THEN @ ELSE @ + 1]
  /\ log' = Append(log, <<"IOObjectRelease_iterator", 0>>)
  /\ LET nxt == connect_after_scan(conn.success)
     IN IF nxt = "c_ret"
        THEN pc' = "idle" /\ ret' = BoolRet(conn.op, conn.success)
        ELSE pc' = nxt /\ ret' = ret
  /\ UNCHANGED <<client, devs, ifaces, srcs, xfer, pending, scratch, nAsync>>

\* delay(WAIT_RETRY_TIMEOUT) and back to the head of the loop.
ConnectDelay ==
  /\ pc = "c_delay"
  /\ conn' = [conn EXCEPT !.delays = @ + 1, !.waited = @ + WAIT_RETRY_TIMEOUT]
  /\ pc' = "c_match"
  /\ UNCHANGED <<client, devs, ifaces, srcs, log, ret, xfer, pending, scratch, nAsync>>

\* ---------------------------------------------------------------- transfers
\* The caller's buffer is "NULL" or "buf"; g_null_buffer is "zero" or "dirty".
Buffers == {"NULL", "buf"}
Lengths == {0, 4097, 65554}
Timeouts == {0, 5}

\* The request descriptor both transfer functions build, and the scratch
\* buffer afterwards. wLength is the size_t length narrowed to 16 bits.
BuildRequest_NoClear(data, length, buffer) ==
  LET substitute == length > 0 /\ data = "NULL"
  IN [rto |-> [pData |-> IF substitute THEN "g_null_buffer" ELSE data,
               wLength |-> length % 65536,
               wLenDone |-> 0,
               cleared |-> substitute,
               completionTimeout |-> SIOKU_DEFAULT_USB_TIMEOUT,
               noDataTimeout |-> SIOKU_DEFAULT_USB_TIMEOUT],
      scratch |-> buffer]

BuildRequest(data, length, buffer) ==
  LET substitute == length > 0 /\ data = "NULL"
  IN [rto |-> [pData |-> IF substitute THEN "g_null_buffer" ELSE data,
               wLength |-> length % 65536,
               wLenDone |-> 0,
               cleared |-> substitute,
               completionTimeout |-> SIOKU_DEFAULT_USB_TIMEOUT,
               noDataTimeout |-> SIOKU_DEFAULT_USB_TIMEOUT],
      scratch |-> IF substitute THEN "zero" ELSE buffer]

\* Byte counts the transport may report for a request of wLength bytes.
Done(wLength) == {0, wLength}

\* What the device may leave in g_null_buffer when it was the data buffer.
ScratchAfter(rto, buffer) ==
  IF rto.pData = "g_null_buffer" THEN {buffer, "dirty"} ELSE {buffer}

\* sioku_transfer: one DeviceRequestTO, then sioku_transfer_result.
Transfer ==
  /\ pc = "idle"
  /\ DeviceLive(St)
  /\ \E data \in Buffers, length \in Lengths, error \in Codes :
       LET b == BuildRequest(data, length, scratch)
       IN \E done \in Done(b.rto.wLength), after \in ScratchAfter(b.rto, b.scratch) :
            /\ xfer' = [XferInit EXCEPT
                           !.kind = "sync", !.data = data, !.length = length,
                           !.entry = scratch, !.sent = b.scratch,
                           !.rto = b.rto]
            /\ scratch' = after
            /\ ret' = [NoRet EXCEPT
                         !.op = "transfer", !.path = "sync",
                         !.code = error, !.done = U32(done),
                         !.out = sioku_transfer_result(error, U32(done))]
  /\ log' = << <<"DeviceRequestTO", client.device>> >>
  /\ conn' = ConnInit
  /\ UNCHANGED <<client, devs, ifaces, srcs, pc, pending, nAsync>>

\* The public pure functions, called on their own.
TransferStateFromIOKit ==
  /\ pc = "idle"
  /\ \E error \in Codes :
       ret' = [NoRet EXCEPT
                 !.op = "transfer_state", !.code = error,
                 !.out = [NoOut EXCEPT
                            !.state = sioku_transfer_state_from_iokit(error)]]
  /\ log' = << >> /\ conn' = ConnInit /\ xfer' = XferInit
  /\ UNCHANGED <<client, devs, ifaces, srcs, pc, pending, scratch, nAsync>>

TransferResult ==
  /\ pc = "idle"
  /\ \E error \in Codes, length \in {U32(0), U32(18), UINT32_MAX} :
       ret' = [NoRet EXCEPT
                 !.op = "transfer_result", !.code = error, !.done = length,
                 !.out = sioku_transfer_result(error, length)]
  /\ log' = << >> /\ conn' = ConnInit /\ xfer' = XferInit
  /\ UNCHANGED <<client, devs, ifaces, srcs, pc, pending, scratch, nAsync>>

\* async_transfer_callback(object, error, arg): object is the result slot
\* (the id of the call that owns it, or NULL), arg the byte count as a
\* pointer-sized value of which memcpy takes the low four bytes.
async_transfer_callback(object, error, arg) ==
  IF object = NULL
  THEN [write |-> FALSE, val |-> NoOut, stops |-> 1]
  ELSE [write |-> TRUE,
        val |-> [state |-> sioku_transfer_state_from_iokit(error),
                 length |-> <<arg[1], arg[2]>>],
        stops |-> 1]

\* Where sioku_transfer_async goes after DeviceRequestAsyncTO and after
\* USBDeviceAbortPipeZero.
async_after_submit(ok) == IF ok THEN "a_delay" ELSE "a_ret_error"

async_after_abort_Run(ok) == "a_run"

async_after_abort(ok) == IF ok THEN "a_run" ELSE "a_ret_error"

\* What reading a result slot yields: its value, or anything if nothing was
\* written to it.
Garbage == {[state |-> "Error", length |-> U32(0)],
            [state |-> "Ok", length |-> U32(7)]}
ReadSlot(slot) == IF slot.init THEN {slot.val} ELSE Garbage

\* sioku_transfer_async up to and including DeviceRequestAsyncTO.
TransferAsync ==
  /\ pc = "idle"
  /\ DeviceLive(St)
  /\ nAsync < MaxAsync
  /\ \E data \in Buffers, length \in Lengths, timeout \in Timeouts, ok \in BOOLEAN :
       LET b == BuildRequest(data, length, scratch)
           id == nAsync + 1
           nxt == async_after_submit(ok)
       IN /\ xfer' = [XferInit EXCEPT
                          !.kind = "async", !.id = id, !.data = data,
                          !.length = length, !.entry = scratch,
                          !.sent = b.scratch, !.rto = b.rto,
                          !.timeout = timeout,
                          !.submitted = IF ok THEN "ok" ELSE "fail"]
          /\ scratch' = b.scratch
          /\ nAsync' = id
          /\ pending' = IF ok
                        THEN pending \cup {[id |-> id, wLength |-> b.rto.wLength]}
                        ELSE pending
          /\ IF nxt = "a_ret_error"
             THEN /\ pc' = "idle"
                  /\ ret' = [NoRet EXCEPT !.op = "transfer_async",
                                          !.path = "submit_fail",
                                          !.out = TRANSFER_RESULT_ERROR]
             ELSE pc' = nxt /\ ret' = NoRet
  /\ log' = << <<"DeviceRequestAsyncTO", client.device>> >>
  /\ conn' = ConnInit
  /\ UNCHANGED <<client, devs, ifaces, srcs>>

\* delay(timeout)
AsyncDelay ==
  /\ pc = "a_delay"
  /\ xfer' = [xfer EXCEPT !.delays = @ + 1, !.waited = @ + xfer.timeout]
  /\ log' = Append(log, <<"delay", xfer.timeout>>)
  /\ pc' = "a_abort"
  /\ UNCHANGED <<client, devs, ifaces, srcs, ret, conn, pending, scratch, nAsync>>

\* USBDeviceAbortPipeZero, and on success the entry into CFRunLoopRun.
AsyncAbort ==
  /\ pc = "a_abort"
  /\ \E ok \in BOOLEAN :
       LET nxt == async_after_abort(ok)
       IN IF nxt = "a_ret_error"
          THEN /\ pc' = "idle"
               /\ xfer' = [xfer EXCEPT !.aborts = @ + 1,
                                       !.aborted = IF ok THEN "ok" ELSE "fail"]
               /\ log' = Append(log, <<"USBDeviceAbortPipeZero", client.device>>)
               /\ ret' = [NoRet EXCEPT !.op = "transfer_async",
                                       !.path = "abort_fail",
                                       !.out = TRANSFER_RESULT_ERROR]
          ELSE /\ pc' = nxt
               /\ xfer' = [xfer EXCEPT !.aborts = @ + 1, !.runs = @ + 1,
                                       !.aborted = IF ok THEN "ok" ELSE "fail"]
               /\ log' = log \o << <<"USBDeviceAbortPipeZero", client.device>>,
                                   <<"CFRunLoopRun", 0>> >>
               /\ ret' = ret
  /\ UNCHANGED <<client, devs, ifaces, srcs, conn, pending, scratch, nAsync>>

\* Inside CFRunLoopRun the event source delivers one pending completion t to
\* async_transfer_callback, which stops the run loop; the call returns its
\* result slot. A completion whose slot belongs to a call that has returned
\* writes through a dangling pointer: the write lands in the running call's
\* slot or elsewhere.
AsyncDeliver ==
  /\ pc = "a_run"
  /\ \E t \in pending, error \in Codes :
       \E done \in Done(t.wLength), aliased \in BOOLEAN,
          after \in ScratchAfter(xfer.rto, scratch) :
         LET cb == async_transfer_callback(t.id, error, U64(done))
             own == t.id = xfer.id
             slot == IF cb.write /\ (own \/ aliased)
                     THEN [init |-> TRUE, val |-> cb.val]
                     ELSE xfer.result
         IN /\ (own => aliased)
            /\ pending' = pending \ {t}
            /\ scratch' = after
            /\ \E out \in ReadSlot(slot) :
                 /\ xfer' = [xfer EXCEPT !.result = slot, !.own = own,
                                         !.deliveries = @ + 1,
                                         !.stops = @ + cb.stops]
                 /\ ret' = [NoRet EXCEPT !.op = "transfer_async",
                                         !.path = "runloop",
                                         !.code = error, !.done = U32(done),
                                         !.out = out]
  /\ log' = log \o << <<"async_transfer_callback", 0>>, <<"CFRunLoopStop", 0>> >>
  /\ pc' = "idle"
  /\ UNCHANGED <<client, devs, ifaces, srcs, conn, nAsync>>

\* The session lifecycle.
Next ==
  \/ OpenDevice \/ OpenInterface \/ CloseDevice \/ CloseInterface
  \/ Disconnect \/ Reset \/ Reconnect
  \/ Connect \/ ConnectMatch \/ ConnectOpenDevice \/ ConnectOpenInterface
  \/ ConnectScanEnd \/ ConnectDelay

Spec == Init /\ [][Next]_vars

\* The session operations that are one step each: opening, closing and
\* resetting the handles by hand.
NextSession ==
  \/ OpenDevice \/ OpenInterface \/ CloseDevice \/ CloseInterface
  \/ Disconnect \/ Reset

SpecSession == Init /\ [][NextSession]_vars

\* Connect, reconnect and disconnect alone: the callers of sioku_connect.
NextConnect ==
  \/ Connect \/ Reconnect \/ Disconnect
  \/ ConnectMatch \/ ConnectOpenDevice \/ ConnectOpenInterface
  \/ ConnectScanEnd \/ ConnectDelay

SpecConnect == Init /\ [][NextConnect]_vars

\* The transfer engine, on a session that Open Device and Open Interface
\* (index 0, alternate setting 0) have connected.
Connected ==
  LET created == [client |-> sioku_client_create, devs |-> << >>,
                  ifaces |-> << >>, srcs |-> << >>, log |-> << >>]
      opened == sioku_open_device(created, 1, "ok", "ok").st
  IN sioku_open_interface(opened, 0, 0, TRUE, 1, "ok", "ok").st

InitTransfer ==
  /\ client = Connected.client
  /\ devs = Connected.devs
  /\ ifaces = Connected.ifaces
  /\ srcs = Connected.srcs
  /\ log = Connected.log
  /\ pc = "idle"
  /\ ret = NoRet
  /\ conn = ConnInit
  /\ xfer = XferInit
  /\ pending = {}
  /\ scratch = "zero"
  /\ nAsync = 0

NextTransfer ==
  \/ Transfer \/ TransferStateFromIOKit \/ TransferResult
  \/ TransferAsync \/ AsyncDelay \/ AsyncAbort \/ AsyncDeliver

SpecTransfer == InitTransfer /\ [][NextTransfer]_vars

\* ================================================================== claims
IsIn(e, lg) == \E i \in 1..Len(lg) : lg[i] = e

ConnectReturned == pc = "idle" /\ ret.op \in {"connect", "reconnect"}

\* C1 (as claimed): sioku_connect never returns failure: whatever the host
\* does, a connect call that has returned has returned true.
C1_ConnectNeverReturnsFalse ==
  (pc = "idle" /\ ret.op = "connect") => ret.ok

\* C2: whenever connect returns true the session is fully connected: its
\* device handle was exclusively opened, configured, is still open and
\* unreleased, its event source is registered and unreleased, and its
\* interface handle was resolved from the candidate at the requested index,
\* exclusively opened, and is still open and unreleased.
C2_ConnectedOnSuccess ==
  (ConnectReturned /\ ret.ok) =>
    LET d == client.device
        f == client.interface
        e == client.event_source
    IN /\ d # NULL /\ devs[d].open /\ devs[d].rel = 0
       /\ IsIn(<<"USBDeviceOpenSeize", d>>, log)
       /\ IsIn(<<"SetConfiguration", d>>, log)
       /\ ~IsIn(<<"USBDeviceClose", d>>, log) /\ ~IsIn(<<"Release", d>>, log)
       /\ e # NULL /\ srcs[e].reg /\ srcs[e].rel = 0
       /\ IsIn(<<"CFRunLoopAddSource", e>>, log)
       /\ f # NULL /\ ifaces[f].open /\ ifaces[f].rel = 0
       /\ IsIn(<<"QueryInterface", IfService(conn.index + 1)>>, log)
       /\ IsIn(<<"USBInterfaceOpenSeize", f>>, log)
       /\ ~IsIn(<<"USBInterfaceClose", f>>, log)

C2_Witness ==
  ConnectReturned /\ ret.ok /\ conn.index = 1 /\ conn.failed = 1

\* C3: a connect call that succeeds on scan N+1 after N unsuccessful scans
\* has waited the 200 ms retry delay exactly N times: one delay after each
\* unsuccessful scan (so while a scan is in progress the delays equal the
\* unsuccessful scans, and in the delay one is still owed) and none after
\* the successful scan.
C3_OneDelayPerFailedScan ==
  /\ pc \in {"c_match", "c_next", "c_iface", "c_end"} =>
       conn.delays = conn.failed
  /\ pc = "c_delay" => conn.failed = conn.delays + 1
  /\ (ConnectReturned /\ ret.ok) =>
       /\ conn.scans = conn.failed + 1
       /\ conn.delays = conn.failed
       /\ conn.waited = 200 * conn.failed

C3_Witness ==
  ConnectReturned /\ ret.ok /\ conn.failed = 2 /\ conn.delays = 2

\* C4 (as claimed): after any sequence of public operations the session owns
\* at most one opened, unreleased device handle, at most one such interface
\* handle and at most one registered event source.
C4_AtMostOneOfEach ==
  pc = "idle" =>
    /\ Cardinality({d \in DOMAIN devs : devs[d].open /\ devs[d].rel = 0}) <= 1
    /\ Cardinality({f \in DOMAIN ifaces :
                      ifaces[f].open /\ ifaces[f].rel = 0}) <= 1
    /\ Cardinality({e \in DOMAIN srcs : srcs[e].reg}) <= 1

\* C5 (as claimed): between operations the interface handle is non-null only
\* if the device handle is non-null, and an event source is registered
\* exactly when the session's device handle is open.
C5_HandleInvariant ==
  pc = "idle" =>
    /\ (client.interface # NULL => client.device # NULL)
    /\ ((\E e \in DOMAIN srcs : srcs[e].reg)
          <=> (client.device # NULL /\ devs[client.device].open))

\* C6 (as claimed): when Open Interface fails after resolving an interface
\* handle (it went on to the exclusive open), that handle has been released
\* before the call returns.
C6_FailedOpenInterfaceReleases ==
  (pc = "idle" /\ ret.op = "open_interface" /\ ~ret.ok) =>
    \A f \in DOMAIN ifaces :
      IsIn(<<"USBInterfaceOpenSeize", f>>, log) =>
        /\ ifaces[f].rel = 1
        /\ IsIn(<<"Release", f>>, log)

TransferReturned == pc = "idle" /\ ret.op \in {"transfer", "transfer_async"}

\* C7 (as claimed): every outcome a transfer returns with kind Error carries
\* the sentinel length UINT32_MAX.
C7_ErrorHasSentinel ==
  (TransferReturned /\ ret.out.state = "Error") => ret.out.length = UINT32_MAX

\* C7 (amended): an outcome returned by the asynchronous transfer's
\* submission-failure or abort-failure branch is the fixed Error outcome with
\* the sentinel length UINT32_MAX; an outcome a synchronous transfer builds
\* from the transport's completion code carries the byte count the transport
\* reported, also when its kind is Error.
C7_FixedErrorHasSentinel ==
  /\ (TransferReturned /\ ret.path \in {"submit_fail", "abort_fail"}) =>
       ret.out.state = "Error" /\ ret.out.length = UINT32_MAX
  /\ (TransferReturned /\ ret.path = "sync") =>
       ret.out.length = ret.done /\ ret.out.length # UINT32_MAX

C7_Witness ==
  /\ TransferReturned /\ ret.path = "abort_fail"
  /\ ret.out.length = <<65535, 65535>>

\* C8: classify maps success, aborted, timeout and transaction-timeout to Ok,
\* pipe-stalled to Stall and every other code to Error, and a call of it
\* changes nothing of the session, the host objects or the transfers.
ExpectedKind(code) ==
  IF code \in {"kIOReturnSuccess", "kIOReturnAborted", "kIOReturnTimeout",
               "kIOUSBTransactionTimeout"}
  THEN "Ok"
  ELSE IF code = "kIOUSBPipeStalled" THEN "Stall" ELSE "Error"

C8_Classify ==
  [][ret'.op = "transfer_state" =>
       /\ ret'.out.state = ExpectedKind(ret'.code)
       /\ UNCHANGED <<client, devs, ifaces, srcs, pc, pending, scratch,
                      nAsync>>]_vars

C8_Witness ==
  ret.op = "transfer_state" /\ ret.code = "kIOReturnAborted"
    /\ ret.out.state = "Ok"

\* C9 (as claimed): an asynchronous transfer that returns through the run
\* loop was stopped by exactly one delivery, that of its own completion, and
\* returns the byte count and the classified code of that completion.
C9_AsyncReturnsOwnCompletion ==
  (TransferReturned /\ ret.path = "runloop") =>
    /\ xfer.deliveries = 1 /\ xfer.stops = 1
    /\ xfer.own
    /\ ret.out = [state |-> ExpectedKind(ret.code), length |-> ret.done]

\* C10: an asynchronous transfer whose submission failed returns the fixed
\* Error outcome having waited, aborted and run the event loop zero times; one
\* whose abort failed returns the fixed Error outcome after exactly one wait
\* of the caller's timeout and one abort, without running the event loop and
\* with its own completion undelivered; the event loop is only ever run
\* after a successful submission and a successful abort.
C10_FailureBranches ==
  /\ (TransferReturned /\ xfer.submitted = "fail") =>
       /\ ret.out = [state |-> "Error", length |-> UINT32_MAX]
       /\ xfer.delays = 0 /\ xfer.aborts = 0 /\ xfer.runs = 0
       /\ xfer.deliveries = 0
  /\ (TransferReturned /\ xfer.aborted = "fail") =>
       /\ ret.out = [state |-> "Error", length |-> UINT32_MAX]
       /\ xfer.delays = 1 /\ xfer.waited = xfer.timeout /\ xfer.aborts = 1
       /\ xfer.runs = 0 /\ xfer.deliveries = 0
       /\ \E t \in pending : t.id = xfer.id
  /\ pc = "a_run" => xfer.submitted = "ok" /\ xfer.aborted = "ok"

C10_Witness ==
  TransferReturned /\ xfer.aborted = "fail" /\ xfer.timeout = 5

\* The number of times the host call e was made in the call log lg.
Count(e, lg) == Cardinality({i \in 1..Len(lg) : lg[i] = e})

\* C11: a synchronous transfer submits exactly one control request to the
\* session's open device and makes no other host call (no close, no release,
\* no second request); it returns the outcome whose kind is the classified
\* completion code and whose length is the byte count the transport reported,
\* and it leaves the session's handles and the host objects as they were.
C11_SyncTransfer ==
  [][ret'.op = "transfer" =>
       /\ log' = << <<"DeviceRequestTO", client.device>> >>
       /\ devs[client.device].open /\ devs[client.device].rel = 0
       /\ ret'.out = [state |-> ExpectedKind(ret'.code), length |-> ret'.done]
       /\ UNCHANGED <<client, devs, ifaces, srcs, pc, pending, nAsync>>]_vars

C11_Witness ==
  /\ pc = "idle" /\ ret.op = "transfer" /\ ret.code = "kIOUSBPipeStalled"
  /\ ret.done = U32(4097) /\ ret.out = [state |-> "Stall", length |-> U32(4097)]
  /\ Count(<<"DeviceRequestTO", client.device>>, log) = 1

\* C12: in both transfer operations the request's data pointer is
\* g_null_buffer exactly when the caller's buffer is null and the length is
\* greater than zero; g_null_buffer is then all zero when the request is
\* submitted, whatever an earlier transfer left in it; a non-null caller
\* buffer is the request's data pointer, and a null buffer with length zero
\* stays null.
C12_ScratchSubstitution ==
  xfer.kind \in {"sync", "async"} =>
    /\ (xfer.rto.pData = "g_null_buffer")
         <=> (xfer.data = "NULL" /\ xfer.length > 0)
    /\ (xfer.rto.pData = "g_null_buffer" => xfer.sent = "zero")
    /\ (xfer.data # "NULL" => xfer.rto.pData = xfer.data)
    /\ (xfer.data = "NULL" /\ xfer.length = 0 => xfer.rto.pData = "NULL")

C12_Witness ==
  /\ xfer.kind = "async" /\ xfer.data = "NULL" /\ xfer.length = 65554
  /\ xfer.entry = "dirty" /\ xfer.sent = "zero"
  /\ xfer.rto.pData = "g_null_buffer"

\* The interface handle a returned Open Interface call opened exclusively.
Seized ==
  /\ pc = "idle" /\ ret.op = "open_interface" /\ ret.host.step # "seize_fail"
  /\ IsIn(<<"USBInterfaceOpenSeize", Len(ifaces)>>, log)

\* C13: once Open Interface has exclusively opened the interface, with
\* alternate setting 1 it calls SetAlternateInterface exactly once, and if
\* that fails its last two calls are USBInterfaceClose and Release of the
\* handle and it returns false; with any other alternate setting it never
\* calls SetAlternateInterface and returns true with the handle open and
\* unreleased, also when the host would have failed that call.
C13_AlternateSetting ==
  Seized =>
    LET f == Len(ifaces)
        n == Len(log)
    IN IF conn.alt_index = 1
       THEN /\ Count(<<"SetAlternateInterface", f>>, log) = 1
            /\ ret.ok <=> ret.host.step = "ok"
            /\ ret.ok => /\ ifaces[f] = [open |-> TRUE, rel |-> 0]
                         /\ log[n] = <<"SetAlternateInterface", f>>
            /\ ~ret.ok => /\ ifaces[f] = [open |-> FALSE, rel |-> 1]
                          /\ log[n - 2] = <<"SetAlternateInterface", f>>
                          /\ log[n - 1] = <<"USBInterfaceClose", f>>
                          /\ log[n] = <<"Release", f>>
                          /\ Count(<<"USBInterfaceClose", f>>, log) = 1
                          /\ Count(<<"Release", f>>, log) = 1
       ELSE /\ Count(<<"SetAlternateInterface", f>>, log) = 0
            /\ ret.ok
            /\ ifaces[f] = [open |-> TRUE, rel |-> 0]
            /\ log[n] = <<"USBInterfaceOpenSeize", f>>

C13_Witness ==
  /\ Seized /\ conn.alt_index = 1 /\ ret.host.step = "alt_fail" /\ ~ret.ok
  /\ log[Len(log)] = <<"Release", Len(ifaces)>>

\* C14: a disconnect makes exactly these six host calls in this order: close
\* the interface, release the interface handle, remove the event source from
\* the run loop, release the event source, close the device, release the
\* device handle; afterwards each of the three objects is closed or
\* unregistered and has been released once.
C14_DisconnectOrder ==
  (pc = "idle" /\ ret.op = "disconnect") =>
    LET d == client.device
        f == client.interface
        e == client.event_source
    IN /\ log = << <<"USBInterfaceClose", f>>, <<"Release", f>>,
                   <<"CFRunLoopRemoveSource", e>>, <<"CFRelease", e>>,
                   <<"USBDeviceClose", d>>, <<"Release", d>> >>
       /\ ifaces[f] = [open |-> FALSE, rel |-> 1]
       /\ srcs[e] = [reg |-> FALSE, rel |-> 1]
       /\ devs[d] = [open |-> FALSE, rel |-> 1]

C14_Witness ==
  /\ pc = "idle" /\ ret.op = "disconnect"
  /\ client.device = 2 /\ client.interface = 1
  /\ log[2] = <<"Release", 1>> /\ log[6] = <<"Release", 2>>

\* A device-only session: Open Device has succeeded and the session holds no
\* open interface handle.
DeviceOnly ==
  /\ DeviceLive(St) /\ SourceLive(St) /\ devs[client.device].open
  /\ srcs[client.event_source].reg
  /\ (client.interface = NULL \/ ~ifaces[client.interface].open)

\* C15: close_device on a device-only session makes exactly four host calls:
\* it removes the event source from the run loop and releases it, closes the
\* device and releases its handle, each once; it makes no call on an
\* interface handle and leaves the interface handles and the session's
\* fields as they were.
C15_CloseDeviceAlone ==
  [][(DeviceOnly /\ ret'.op = "close_device") =>
       LET d == client.device
           e == client.event_source
       IN /\ log' = << <<"CFRunLoopRemoveSource", e>>, <<"CFRelease", e>>,
                       <<"USBDeviceClose", d>>, <<"Release", d>> >>
          /\ srcs' = [srcs EXCEPT ![e] = [reg |-> FALSE, rel |-> 1]]
          /\ devs' = [devs EXCEPT ![d] = [open |-> FALSE, rel |-> 1]]
          /\ UNCHANGED <<client, ifaces>>]_vars

C15_Witness ==
  /\ pc = "idle" /\ ret.op = "close_device" /\ client.interface = NULL
  /\ client.device = 2 /\ devs[2] = [open |-> FALSE, rel |-> 1]
  /\ srcs[client.event_source] = [reg |-> FALSE, rel |-> 1]
  /\ Len(log) = 4 /\ ifaces = << >>

\* C16: reset returns true exactly when ResetDevice and USBDeviceReEnumerate
\* both succeed; it calls ResetDevice once and, only if that succeeded,
\* USBDeviceReEnumerate once with options 0, and nothing else; it leaves the
\* session's fields, every handle and every event source as they were.
C16_Reset ==
  [][ret'.op = "reset" =>
       LET d == client.device
           how == ret'.host.step
       IN /\ ret'.ok <=> how = "ok"
          /\ log' = IF how = "reset_fail"
                    THEN << <<"ResetDevice", d>> >>
                    ELSE << <<"ResetDevice", d>>,
                            <<"USBDeviceReEnumerate", d, 0>> >>
          /\ UNCHANGED <<client, devs, ifaces, srcs>>]_vars

C16_Witness ==
  /\ pc = "idle" /\ ret.op = "reset" /\ ret.host.step = "reenum_fail"
  /\ ~ret.ok /\ log[2] = <<"USBDeviceReEnumerate", client.device, 0>>
  /\ devs[client.device] = [open |-> TRUE, rel |-> 0]

\* C17: a reconnect resets first. If the reset fails, the call returns false
\* at once: sioku_connect is not entered and the session's fields, handles
\* and event sources are as they were. If the reset succeeds (both of its
\* calls were made), sioku_connect is entered at its start with interface
\* index 0 and alternate setting 0, and when it leaves, the reconnect
\* returns the connect's success flag.
C17_Reconnect ==
  [][/\ (pc = "idle" /\ pc' = "idle" /\ ret'.op = "reconnect") =>
          /\ ret'.host.step \in {"reset_fail", "reenum_fail"}
          /\ ~ret'.ok
          /\ log'[1] = <<"ResetDevice", client.device>>
          /\ conn' = ConnInit
          /\ UNCHANGED <<client, devs, ifaces, srcs>>
     /\ (pc = "idle" /\ pc' # "idle" /\ conn'.op = "reconnect") =>
          /\ ret'.host.step = "ok"
          /\ log' = << <<"ResetDevice", client.device>>,
                       <<"USBDeviceReEnumerate", client.device, 0>> >>
          /\ pc' = "c_match"
          /\ conn' = [ConnInit EXCEPT !.op = "reconnect"]
          /\ conn'.index = 0 /\ conn'.alt_index = 0
          /\ UNCHANGED <<client, devs, ifaces, srcs>>
     /\ (pc # "idle" /\ conn.op = "reconnect") =>
          /\ conn'.index = 0 /\ conn'.alt_index = 0
          /\ pc' = "idle" => ret' = BoolRet("reconnect", conn'.success)
    ]_vars

C17_Witness ==
  /\ pc = "idle" /\ ret.op = "reconnect" /\ ret.ok
  /\ conn.index = 0 /\ conn.alt_index = 0 /\ conn.failed = 1
  /\ client.device = 2 /\ devs[1] = [open |-> TRUE, rel |-> 0]

\* C18 (as claimed): while sioku_connect works on a candidate service and
\* when it has finished with it, the service reference has been released at
\* most once, and once Open Device has returned for it, exactly once,
\* whatever the outcome of Open Device.
C18_CandidateReleasedOnce ==
  (pc \in {"c_next", "c_iface", "c_end"} /\ conn.cand > 0) =>
    Count(<<"IOObjectRelease", conn.cand>>, log) = 1

\* The service reference a returned Open Device or Open Interface call gave
\* to the resolver, and whether the call went on past the resolver.
ResolvedService ==
  IF ret.op = "open_device" THEN 1 ELSE IfService(conn.index + 1)

ResolverCalled ==
  /\ pc = "idle" /\ ret.op \in {"open_device", "open_interface"}
  /\ IsIn(<<"IOCreatePlugInInterfaceForService", ResolvedService>>, log)

WentOn ==
  \E i \in 1..Len(log) :
    log[i][1] \in {"USBDeviceOpenSeize", "USBInterfaceOpenSeize"}

\* C19: whenever the resolver has run, it has released the service it was
\* given exactly once, as its last call; if the plugin could not be created
\* it has made no call on a plugin, and otherwise it has queried the plugin
\* once and destroyed it once, before releasing the service; its caller went
\* on (the resolver returned true) only if the plugin was created and the
\* query succeeded.
C19_Resolver ==
  ResolverCalled =>
    LET svc == ResolvedService
        p == CHOOSE i \in 1..Len(log) :
               log[i] = <<"IOCreatePlugInInterfaceForService", svc>>
    IN /\ Count(<<"IOCreatePlugInInterfaceForService", svc>>, log) = 1
       /\ Count(<<"IOObjectRelease", svc>>, log) = 1
       /\ IF ret.host.res = "plugin_fail"
          THEN /\ log[p + 1] = <<"IOObjectRelease", svc>>
               /\ Count(<<"QueryInterface", svc>>, log) = 0
               /\ Count(<<"IODestroyPlugInInterface", svc>>, log) = 0
          ELSE /\ SubSeq(log, p + 1, p + 3) =
                    << <<"QueryInterface", svc>>,
                       <<"IODestroyPlugInInterface", svc>>,
                       <<"IOObjectRelease", svc>> >>
               /\ Count(<<"QueryInterface", svc>>, log) = 1
               /\ Count(<<"IODestroyPlugInInterface", svc>>, log) = 1
       /\ WentOn <=> ret.host.res = "ok"
       /\ ret.host.res # "ok" =>
            /\ ~ret.ok
            /\ Len(log) = p + (IF ret.host.res = "plugin_fail" THEN 1 ELSE 3)

C19_Witness ==
  /\ ResolverCalled /\ ret.op = "open_interface" /\ conn.index = 1
  /\ ret.host.res = "query_fail" /\ ~ret.ok
  /\ log[Len(log)] = <<"IOObjectRelease", IfService(2)>>
  /\ log[Len(log) - 1] = <<"IODestroyPlugInInterface", IfService(2)>>

\* C20: an Open Device call whose resolver succeeded returns true exactly
\* when no device step fails. If USBDeviceOpenSeize fails, its last call is
\* the one Release of the handle and it never calls USBDeviceClose; if
\* GetConfigurationDescriptorPtr, SetConfiguration or
\* CreateDeviceAsyncEventSource fails, its last two calls are USBDeviceClose
\* and then Release, once each, right after the failed call. A call that
\* returns false has not added an event source to the run loop and leaves
\* the event sources as they were; a call that returns true has added its
\* event source exactly once, as its last call.
C20_OpenDeviceUnwind ==
  [][ret'.op = "open_device" =>
       LET d == Len(devs')
           n == Len(log')
           step == ret'.host.step
           added == {i \in 1..n : log'[i][1] = "CFRunLoopAddSource"}
       IN /\ ret'.ok <=> (ret'.host.res = "ok" /\ step = "ok")
          /\ ~ret'.ok => added = {} /\ srcs' = srcs
          /\ ret'.ok =>
               /\ added = {n}
               /\ log'[n] = <<"CFRunLoopAddSource", client'.event_source>>
               /\ srcs' = Append(srcs, [reg |-> TRUE, rel |-> 0])
               /\ client'.event_source = Len(srcs')
               /\ devs' = Append(devs, [open |-> TRUE, rel |-> 0])
               /\ Count(<<"USBDeviceClose", d>>, log') = 0
               /\ Count(<<"Release", d>>, log') = 0
          /\ (ret'.host.res = "ok" /\ step = "seize_fail") =>
               /\ log'[n - 1] = <<"USBDeviceOpenSeize", d>>
               /\ log'[n] = <<"Release", d>>
               /\ Count(<<"Release", d>>, log') = 1
               /\ Count(<<"USBDeviceClose", d>>, log') = 0
               /\ devs' = Append(devs, [open |-> FALSE, rel |-> 1])
          /\ (ret'.host.res = "ok"
                /\ step \in {"desc_fail", "config_fail", "source_fail"}) =>
               /\ log'[n - 2] = DeviceCalls(d)[DeviceStepNo(step)]
               /\ log'[n - 1] = <<"USBDeviceClose", d>>
               /\ log'[n] = <<"Release", d>>
               /\ Count(<<"USBDeviceClose", d>>, log') = 1
               /\ Count(<<"Release", d>>, log') = 1
               /\ devs' = Append(devs, [open |-> FALSE, rel |-> 1])]_vars

C20_Witness ==
  /\ pc = "idle" /\ ret.op = "open_device" /\ ~ret.ok
  /\ ret.host = [res |-> "ok", step |-> "source_fail"]
  /\ log[Len(log) - 2] = <<"CreateDeviceAsyncEventSource", Len(devs)>>
  /\ log[Len(log) - 1] = <<"USBDeviceClose", Len(devs)>>
  /\ log[Len(log)] = <<"Release", Len(devs)>>

\* The position of the host call e in the call log lg (0 if it is not there).
Pos(e, lg) ==
  IF IsIn(e, lg) THEN CHOOSE i \in 1..Len(lg) : lg[i] = e ELSE 0

\* C21: an Open Interface call with index k that got its iterator releases
\* the iterator exactly once. If the iterator yields k+1 candidates, each of
\* the first k is yielded once and released once, the (k+1)-th is yielded
\* once, is not released before the iterator is, and is the service given to
\* the resolver. If the iterator runs out before that, every candidate it
\* yielded is released once, the call returns false with the release of the
\* iterator as its last call (no resolver call), and the session's fields
\* and the interface handles are as they were.
C21_InterfaceWalk ==
  [][(ret'.op = "open_interface" /\ Len(log') >= 2) =>
       LET k == conn'.index
           lg == log'
           itPos == Pos(<<"IOObjectRelease_iterator", 0>>, lg)
           exhausted == IsIn(<<"IOIteratorNext", IfService(0)>>, lg)
           yielded == {j \in 1..(MaxIndex + 1) :
                         IsIn(<<"IOIteratorNext", IfService(j)>>, lg)}
       IN /\ lg[1] = <<"CreateInterfaceIterator", client.device>>
          /\ Count(<<"IOObjectRelease_iterator", 0>>, lg) = 1
          /\ \A j \in yielded :
               Count(<<"IOIteratorNext", IfService(j)>>, lg) = 1
          /\ IF exhausted
             THEN /\ yielded \subseteq 1..k /\ yielded # 1..(k + 1)
                  /\ \A j \in yielded :
                       Count(<<"IOObjectRelease", IfService(j)>>, lg) = 1
                  /\ itPos = Len(lg)
                  /\ ~ret'.ok
                  /\ UNCHANGED <<client, ifaces>>
             ELSE /\ yielded = 1..(k + 1)
                  /\ \A j \in 1..k :
                       /\ Count(<<"IOObjectRelease", IfService(j)>>, lg) = 1
                       /\ Pos(<<"IOObjectRelease", IfService(j)>>, lg) < itPos
                  /\ Count(<<"IOObjectRelease", IfService(k + 1)>>, lg) = 1
                  /\ Pos(<<"IOObjectRelease", IfService(k + 1)>>, lg) > itPos
                  /\ lg[itPos + 1] =
                       <<"IOCreatePlugInInterfaceForService", IfService(k + 1)>>
    ]_vars

C21_Witness ==
  /\ pc = "idle" /\ ret.op = "open_interface" /\ conn.index = 1
  /\ Len(log) > 5
  /\ log[2] = <<"IOIteratorNext", IfService(1)>>
  /\ log[3] = <<"IOObjectRelease", IfService(1)>>
  /\ log[4] = <<"IOIteratorNext", IfService(2)>>
  /\ log[5] = <<"IOObjectRelease_iterator", 0>>
  /\ ret.ok

\* The candidate the scan has just finished with had its device opened (its
\* event source was added to the run loop) and its Open Interface failed.
InterfaceFailed ==
  /\ pc = "c_next" /\ conn.cand > 0
  /\ \E i \in 1..Len(log) : log[i][1] = "CFRunLoopAddSource"

ScanTeardown ==
  /\ InterfaceFailed =>
       LET d == client.device
           e == client.event_source
           n == Len(log)
       IN /\ SubSeq(log, n - 3, n) =
               << <<"CFRunLoopRemoveSource", e>>, <<"CFRelease", e>>,
                  <<"USBDeviceClose", d>>, <<"Release", d>> >>
          /\ devs[d] = [open |-> FALSE, rel |-> 1]
          /\ srcs[e] = [reg |-> FALSE, rel |-> 1]
  /\ conn.success => pc \in {"c_end", "idle"}
  /\ (ConnectReturned /\ ret.ok) => conn.itRel = 1
  /\ (pc = "c_delay" /\ conn.cand + conn.left > 0) => conn.itRel = 1

\* C22 (as claimed): when a connect scan has finished with a candidate whose
\* Open Device succeeded and whose Open Interface failed, its last four
\* calls removed and released the event source and closed and released the
\* device; at every moment of a scan at most one device is open; no
\* candidate is attempted after one for which both opens succeeded; and a
\* scan that has ended has released its iterator exactly once, the
\* successful one too.
C22_OneDeviceOpenInScan ==
  /\ ScanTeardown
  /\ pc \in {"c_next", "c_iface", "c_end"} =>
       Cardinality({d \in DOMAIN devs : devs[d].open}) <= 1

\* C23: an Open Interface call that returns false, on whichever path, has
\* made no call that closes the device or removes or releases an event
\* source; the device handles and event sources are as they were, the
\* session still holds the same device and event source, the device is open
\* and unreleased and the event source registered and unreleased.
C23_FailedOpenInterfaceKeepsDevice ==
  [][(ret'.op = "open_interface" /\ ~ret'.ok) =>
       /\ UNCHANGED <<devs, srcs>>
       /\ client'.device = client.device
       /\ client'.event_source = client.event_source
       /\ devs'[client'.device] = [open |-> TRUE, rel |-> 0]
       /\ srcs'[client'.event_source] = [reg |-> TRUE, rel |-> 0]
       /\ \A i \in 1..Len(log') :
            log'[i][1] \notin {"USBDeviceClose", "CFRunLoopRemoveSource",
                               "CFRelease"}]_vars

C23_Witness ==
  /\ pc = "idle" /\ ret.op = "open_interface" /\ ~ret.ok
  /\ ret.host.step = "alt_fail" /\ conn.alt_index = 1
  /\ devs[client.device] = [open |-> TRUE, rel |-> 0]
  /\ srcs[client.event_source].reg
  /\ ifaces[Len(ifaces)] = [open |-> FALSE, rel |-> 1]

\* C24 (as claimed): a completion is only ever delivered to the call that
\* submitted it, while that call is still running: no delivery hands
\* async_transfer_callback the result slot of a call that has returned (for
\* one, of a call that returned through the abort-failure branch), so the
\* callback never writes into such a slot.
C24_NoWriteAfterReturn ==
  (xfer.kind = "async" /\ xfer.deliveries > 0) => xfer.own

\* C25 (as claimed): an asynchronous transfer that returns through the run
\* loop returns a result slot that its own completion has written: the
\* delivery that stopped its run loop was its own, the slot is initialised,
\* and the value returned is the one in the slot.
C25_ReturnsOwnWrittenSlot ==
  (TransferReturned /\ ret.path = "runloop") =>
    /\ xfer.own
    /\ xfer.result.init
    /\ ret.out = xfer.result.val

\* C26 (as claimed): whenever a transfer has put g_null_buffer into the
\* request, the request's wLength (the caller's length modulo 2^16) is at
\* most the 4096 bytes that g_null_buffer holds.
C26_ScratchLengthWithinCapacity ==
  (xfer.kind \in {"sync", "async"} /\ xfer.rto.pData = "g_null_buffer") =>
    /\ xfer.rto.wLength = xfer.length % 65536
    /\ xfer.rto.wLength <= NullBufferSize

====
